---- MODULE Spec2Model ----
(***************************************************************************)
(* A model of the document pipeline of playingAroundRAG:                   *)
(*   preprocessing.py   partitioning fan-out (asyncio.gather)              *)
(*   chunking.py        chunking batch, save_chunks                        *)
(*   setupLangchain.py  load_chunked_files                                 *)
(*   setupRAG.py / query.py   ask_question and the interactive loop        *)
(* Texts are sequences of one-character strings; file names are sequences  *)
(* of their dot-separated components.                                      *)
(***************************************************************************)
EXTENDS Integers, Sequences, FiniteSets, TLC

VARIABLES
    \* ---- chunking.py: the batch of main() ----
    pc,             \* position of main / process_file / save_chunks
    config,         \* the ChunkingConfig object (NoConfig before construction)
    input_dir,      \* input directory: file name -> content of the file
    json_files,     \* list(input_dir.glob('*.json'))
    idx,            \* position of the for loop in json_files (1-based)
    success_count,  \* main's counter
    returned,       \* the values process_file returned, in loop order
    attempts,       \* file name -> number of process_file calls made for it
    chunks,         \* the chunk list of the process_file call in progress
    fs,             \* chunked_output: path -> file on disk
    report,         \* the final "Processed x/y" log line (NoReport before)
    \* ---- preprocessing.py: the fan-out of process_files() ----
    task,           \* task state per input file
    outfile,        \* output/<name>.json per input file: "none"|"partial"|"full"
    driver,         \* position of process_files / asyncio.run
    \* ---- save_chunks / load_chunked_files / filter_complex_metadata ----
    store,          \* chunked_output as text-level JSON: path -> records
    saved,          \* path -> the (name, chunks, timestamp) last saved there
    processed,      \* the input files save_chunks has been called for
    globbed,        \* order in which load_chunked_files visited the files
    documents,      \* what load_chunked_files returned
    docs,           \* what filter_complex_metadata returned
    spc,            \* "saving" | "loaded" | "filtered"
    \* ---- query.py / setupRAG.py: the interactive loop ----
    lpc,            \* "prompt" | "done" | "crashed"
    inputs,         \* the raw lines input() has returned so far
    asked,          \* the questions ask_question was called with, in order
    failures,       \* how many ask_question calls met an exception
    last            \* outcome of the latest ask_question call

batchVars == <<pc, config, input_dir, json_files, idx, success_count,
               returned, attempts, chunks, fs, report>>
fanVars   == <<task, outfile, driver>>
storeVars == <<store, saved, processed, globbed, documents, docs, spc>>
loopVars  == <<lpc, inputs, asked, failures, last>>
vars      == <<batchVars, fanVars, storeVars, loopVars>>

\* each part of the program runs on its own: what a step of one part leaves alone
notBatch == <<fanVars, storeVars, loopVars>>
notFan   == <<batchVars, storeVars, loopVars>>
notStore == <<batchVars, fanVars, loopVars>>
notLoop  == <<batchVars, fanVars, storeVars>>

-----------------------------------------------------------------------------
(* Bounds of the model *)

\* at most this many chunks in one document of the store model
MaxChunks == 2
\* at most this many input files in the partitioning fan-out
MaxTasks == 3
\* at most this many lines are read by the interactive loop
MaxInputs == 2

-----------------------------------------------------------------------------
(* Generic helpers *)

RECURSIVE Flatten(_)
Flatten(ss) == IF ss = <<>> THEN <<>> ELSE Head(ss) \o Flatten(Tail(ss))

\* all orderings of a finite set, as sequences without repetition
Orderings(S) ==
    { s \in [1..Cardinality(S) -> S] : \A i, j \in 1..Cardinality(S) : s[i] = s[j] => i = j }

\* the empty mapping
EmptyMap == <<>>

\* mapping m without key k
Without(m, k) == [x \in (DOMAIN m) \ {k} |-> m[x]]

\* mapping m with key k set to v
With(m, k, v) == [x \in (DOMAIN m) \cup {k} |-> IF x = k THEN v ELSE m[x]]

Whitespace == {" ", "\n", "\t"}

\* len(text.split()): the number of maximal runs of non-whitespace
RECURSIVE WordCountFrom(_, _)
WordCountFrom(text, inWord) ==
    IF text = <<>> THEN 0
    ELSE IF Head(text) \in Whitespace THEN WordCountFrom(Tail(text), FALSE)
    ELSE (IF inWord THEN 0 ELSE 1) + WordCountFrom(Tail(text), TRUE)

WordCount(text) == WordCountFrom(text, FALSE)

-----------------------------------------------------------------------------
(* pathlib: names as sequences of dot-separated components *)

\* Path.name without its last suffix
Stem(name) == IF Len(name) > 1 THEN SubSeq(name, 1, Len(name) - 1) ELSE name

\* Path.with_suffix: the last suffix is replaced (appended when there is none)
WithSuffix(path, suffix) == Stem(path) \o suffix

\* output_dir / input_file.stem
OutputFile(input_file) == Stem(input_file)

JsonFile(output_file) == WithSuffix(output_file, <<"chunks", "json">>)

TxtFile(output_file) == WithSuffix(output_file, <<"chunks", "txt">>)

-----------------------------------------------------------------------------
(* Chunks, as chunk_by_title hands them to save_chunks *)

\* class names, as strings
Title == <<"Title">>
NarrativeText == <<"NarrativeText">>
Table == <<"Table">>
CompositeElement == <<"CompositeElement">>

\* chunk.metadata.orig_elements, absent (None) or the constituent elements' classes
NoOrig == [present |-> FALSE, kinds |-> <<>>]

Orig(kinds) == [present |-> TRUE, kinds |-> kinds]

Chunk(text, type, orig) == [text |-> text, type |-> type, orig |-> orig]

\* the timestamps datetime.now().isoformat() may give
Timestamps == {<<"t1">>, <<"t2">>}

-----------------------------------------------------------------------------
(* json.dump / json.load of the values save_chunks writes *)

DigitChars == <<"0", "1", "2", "3", "4", "5", "6", "7", "8", "9">>

\* an int as json.dump writes it
RECURSIVE FormatInt(_)
FormatInt(n) ==
    IF n < 10 THEN <<DigitChars[n + 1]>>
    ELSE FormatInt(n \div 10) \o <<DigitChars[(n % 10) + 1]>>

DigitValue(c) == (CHOOSE d \in 1..10 : DigitChars[d] = c) - 1

\* an int as json.load reads it
RECURSIVE ParseInt(_)
ParseInt(ds) ==
    IF Len(ds) = 1 THEN DigitValue(ds[1])
    ELSE 10 * ParseInt(SubSeq(ds, 1, Len(ds) - 1)) + DigitValue(ds[Len(ds)])

\* a string literal in which the backslash is written as it is
RECURSIVE EncodeStringBackslashRaw(_)
EncodeStringBackslashRaw(text) ==
    IF text = <<>> THEN <<>>
    ELSE LET c == Head(text)
             e == IF c = "\"" THEN <<"\\", "\"">>
                  ELSE IF c = "\n" THEN <<"\\", "n">>
                  ELSE IF c = "\t" THEN <<"\\", "t">>
                  ELSE <<c>>
         IN  e \o EncodeStringBackslashRaw(Tail(text))

\* the body of a JSON string literal (ensure_ascii=False): quote, backslash and
\* control characters are escaped, everything else is written as it is
RECURSIVE EncodeString(_)
EncodeString(text) ==
    IF text = <<>> THEN <<>>
    ELSE LET c == Head(text)
             e == IF c = "\"" THEN <<"\\", "\"">>
                  ELSE IF c = "\\" THEN <<"\\", "\\">>
                  ELSE IF c = "\n" THEN <<"\\", "n">>
                  ELSE IF c = "\t" THEN <<"\\", "t">>
                  ELSE <<c>>
         IN  e \o EncodeString(Tail(text))

\* the string a JSON string literal body denotes
RECURSIVE DecodeString(_)
DecodeString(enc) ==
    IF enc = <<>> THEN <<>>
    ELSE IF Head(enc) = "\\" /\ Len(enc) >= 2
         THEN LET c == enc[2]
                  d == IF c = "n" THEN "\n" ELSE IF c = "t" THEN "\t" ELSE c
              IN  <<d>> \o DecodeString(SubSeq(enc, 3, Len(enc)))
         ELSE <<Head(enc)>> \o DecodeString(Tail(enc))

\* metadata is kept as three typed maps: ints, strs and lists (of strings)
EncodeMetadata(m) ==
    [ints  |-> [k \in DOMAIN m.ints |-> FormatInt(m.ints[k])],
     strs  |-> [k \in DOMAIN m.strs |-> EncodeString(m.strs[k])],
     lists |-> [k \in DOMAIN m.lists |->
                  [i \in 1..Len(m.lists[k]) |-> EncodeString(m.lists[k][i])]]]

DecodeMetadata(m) ==
    [ints  |-> [k \in DOMAIN m.ints |-> ParseInt(m.ints[k])],
     strs  |-> [k \in DOMAIN m.strs |-> DecodeString(m.strs[k])],
     lists |-> [k \in DOMAIN m.lists |->
                  [i \in 1..Len(m.lists[k]) |-> DecodeString(m.lists[k][i])]]]

EncodeRecord(r) ==
    [chunk_id |-> FormatInt(r.chunk_id),
     text     |-> EncodeString(r.text),
     type     |-> EncodeString(r.type),
     metadata |-> EncodeMetadata(r.metadata)]

DecodeRecord(e) ==
    [chunk_id |-> ParseInt(e.chunk_id),
     text     |-> DecodeString(e.text),
     type     |-> DecodeString(e.type),
     metadata |-> DecodeMetadata(e.metadata)]

\* json.dump(json_output, f): the file's records, in order
JsonDump(json_output) == [i \in 1..Len(json_output) |-> EncodeRecord(json_output[i])]

\* json.load(f)
JsonLoad(content) == [i \in 1..Len(content) |-> DecodeRecord(content[i])]

-----------------------------------------------------------------------------
(* chunking.py: save_chunks *)

\* chunk_data of the chunk at 0-based position i - 1
ChunkData(i, chunk, original_filename, now) ==
    LET base == [ints  |-> [k \in {"chunk_index", "character_count", "word_count"} |->
                              IF k = "chunk_index" THEN i
                              ELSE IF k = "character_count" THEN Len(chunk.text)
                              ELSE WordCount(chunk.text)],
                 strs  |-> [k \in {"original_filename", "created_at"} |->
                              IF k = "original_filename" THEN original_filename ELSE now],
                 lists |-> EmptyMap]
        \* hasattr(chunk.metadata, 'orig_elements') and chunk.metadata.orig_elements
        full == IF chunk.orig.present /\ chunk.orig.kinds # <<>>
                THEN [base EXCEPT
                        !.ints  = With(base.ints, "original_elements_count", Len(chunk.orig.kinds)),
                        !.lists = With(base.lists, "original_element_types",
                                       chunk.orig.kinds)]
                ELSE base
    IN  [chunk_id |-> i, text |-> chunk.text, type |-> chunk.type, metadata |-> full]

\* json_output, built by the first loop of save_chunks
JsonOutput(chunkList, original_filename, now) ==
    [i \in 1..Len(chunkList) |-> ChunkData(i, chunkList[i], original_filename, now)]

\* one block of the .chunks.txt rendering
TxtBlock(i, chunk) ==
    [chunk |-> i, characters |-> Len(chunk.text), words |-> WordCount(chunk.text),
     type |-> chunk.type, text |-> chunk.text]

\* everything save_chunks writes to the .chunks.txt file: the header, then the blocks
TxtOutput(chunkList, original_filename) ==
    <<[header |-> original_filename]>> \o [i \in 1..Len(chunkList) |-> TxtBlock(i, chunkList[i])]

-----------------------------------------------------------------------------
(* chunking.py: ChunkingConfig, process_file and main *)

NoConfig == [constructed |-> FALSE]

\* ChunkingConfig.__init__: the arguments are stored as given
ChunkingConfig(max_characters, new_after_n_chars, combine_text_under_n_chars, overlap) ==
    [constructed |-> TRUE,
     max_characters |-> max_characters,
     new_after_n_chars |-> new_after_n_chars,
     combine_text_under_n_chars |-> combine_text_under_n_chars,
     overlap |-> overlap,
     overlap_all |-> FALSE,
     multipage_sections |-> TRUE]

\* the argument lists the configuration is constructed with: the one main() writes
\* (which equals the defaults but for the sizes) and overrides of it
ConfigArgs ==
    { <<1000, 800, 200, 50>>,
      <<1000, 800, 200, 1000>>,
      <<0, 800, 200, 50>>,
      <<1000, 800, -1, 50>> }

\* the names output/*.json may hold
InputNames ==
    { <<"report", "pdf", "json">>, <<"report", "docx", "json">>, <<"notes", "pdf", "json">> }

\* what an input file may hold: text that json.load rejects, the empty list [],
\* or the elements of a document
Contents == {"malformed", "empty", "docA", "docB"}

\* chunk_elements_by_title(json_to_elements(json_data), config) of a document
ChunkByTitle(content) ==
    IF content = "docA"
    THEN << Chunk(<<"a", " ", "b">>, CompositeElement, Orig(<<Title, NarrativeText>>)) >>
    ELSE << Chunk(<<"c">>, CompositeElement, Orig(<<NarrativeText>>)),
            Chunk(<<"d", "\n", "e">>, Table, Orig(<<Table>>)) >>

NoReport == [made |-> FALSE, success |-> 0, total |-> 0]

\* the file process_file is working on
input_file == json_files[idx]

\* a file on disk: what has been written to it so far, and (for the checks)
\* what the writer in progress or finished set out to write
File(written, full) == [written |-> written, full |-> full]

BatchInit ==
    /\ pc = "start"
    /\ config = NoConfig
    /\ input_dir \in UNION { [S -> Contents] : S \in SUBSET InputNames }
    /\ json_files = <<>>
    /\ idx = 1
    /\ success_count = 0
    /\ returned = <<>>
    /\ attempts = [n \in DOMAIN input_dir |-> 0]
    /\ chunks = <<>>
    /\ fs = EmptyMap
    /\ report = NoReport

\* main, lines 203-211: the configuration is constructed
Construct ==
    /\ pc = "start"
    /\ \E a \in ConfigArgs : config' = ChunkingConfig(a[1], a[2], a[3], a[4])
    /\ pc' = "glob"
    /\ UNCHANGED <<input_dir, json_files, idx, success_count, returned, attempts,
                   chunks, fs, report>>
    /\ UNCHANGED notBatch

\* main, lines 218-226: the input files are listed, in the order the OS gives
Glob ==
    /\ pc = "glob"
    /\ \E order \in Orderings(DOMAIN input_dir) : json_files' = order
    /\ pc' = IF DOMAIN input_dir = {} THEN "done" ELSE "loop"
    /\ UNCHANGED <<config, input_dir, idx, success_count, returned, attempts,
                   chunks, fs, report>>
    /\ UNCHANGED notBatch

\* process_file returns v to main's loop, lines 227-229
Return(v) ==
    /\ returned' = Append(returned, v)
    /\ success_count' = IF v THEN success_count + 1 ELSE success_count
    /\ idx' = idx + 1
    /\ chunks' = <<>>
    /\ pc' = "loop"

\* the exception leaves process_file and ends main
ExceptReraise ==
    /\ pc' = "crashed"
    /\ UNCHANGED <<returned, success_count, idx, chunks>>

\* process_file, lines 185-187: except Exception, log, return False
ExceptReturn == Return(FALSE)

\* process_file, lines 160-168: the file is opened and parsed
LoadJson ==
    /\ pc = "loop"
    /\ idx <= Len(json_files)
    /\ attempts' = [attempts EXCEPT ![input_file] = @ + 1]
    /\ IF input_dir[input_file] = "malformed"
       THEN ExceptReturn
       ELSE IF input_dir[input_file] = "empty"
       THEN Return(FALSE)
       ELSE /\ pc' = "chunk"
            /\ UNCHANGED <<returned, success_count, idx, chunks>>
    /\ UNCHANGED <<config, input_dir, json_files, fs, report>>
    /\ UNCHANGED notBatch

\* process_file, lines 170-176
ChunkElements ==
    /\ pc = "chunk"
    /\ chunks' = ChunkByTitle(input_dir[input_file])
    /\ pc' = "open_json"
    /\ UNCHANGED <<config, input_dir, json_files, idx, success_count, returned,
                   attempts, fs, report>>
    /\ UNCHANGED notBatch

\* save_chunks, lines 112-138: json_output is built and the .chunks.json file is
\* opened for writing, which creates or truncates it
OpenJson ==
    /\ pc = "open_json"
    /\ \E now \in Timestamps :
         fs' = With(fs, JsonFile(OutputFile(input_file)),
                    File(<<>>, JsonDump(JsonOutput(chunks, input_file, now))))
    /\ pc' = "dump"
    /\ UNCHANGED <<config, input_dir, json_files, idx, success_count, returned,
                   attempts, chunks, report>>
    /\ UNCHANGED notBatch

\* the file at path receives the next piece of what is being written to it
WriteNext(path) ==
    fs' = [fs EXCEPT ![path].written = Append(@, fs[path].full[Len(@) + 1])]

Complete(f) == f.written = f.full

\* save_chunks, line 139: json.dump writes the records one after the other
DumpRecord ==
    /\ pc = "dump"
    /\ ~Complete(fs[JsonFile(OutputFile(input_file))])
    /\ WriteNext(JsonFile(OutputFile(input_file)))
    /\ UNCHANGED <<pc, config, input_dir, json_files, idx, success_count, returned,
                   attempts, chunks, report>>
    /\ UNCHANGED notBatch

\* save_chunks, lines 142-143: the .chunks.txt file is opened for writing
OpenTxt ==
    /\ pc = "dump"
    /\ Complete(fs[JsonFile(OutputFile(input_file))])
    /\ fs' = With(fs, TxtFile(OutputFile(input_file)),
                  File(<<>>, TxtOutput(chunks, input_file)))
    /\ pc' = "write_txt"
    /\ UNCHANGED <<config, input_dir, json_files, idx, success_count, returned,
                   attempts, chunks, report>>
    /\ UNCHANGED notBatch

\* save_chunks, lines 144-154: the header, then one block per chunk
WriteTxt ==
    /\ pc = "write_txt"
    /\ ~Complete(fs[TxtFile(OutputFile(input_file))])
    /\ WriteNext(TxtFile(OutputFile(input_file)))
    /\ UNCHANGED <<pc, config, input_dir, json_files, idx, success_count, returned,
                   attempts, chunks, report>>
    /\ UNCHANGED notBatch

\* process_file, lines 182-183
ReturnTrue ==
    /\ pc = "write_txt"
    /\ Complete(fs[TxtFile(OutputFile(input_file))])
    /\ Return(TRUE)
    /\ UNCHANGED <<config, input_dir, json_files, attempts, fs, report>>
    /\ UNCHANGED notBatch

\* an exception inside the try block of process_file: chunk_by_title raises, a
\* file cannot be opened, a write fails
Raise ==
    /\ pc \in {"chunk", "open_json", "dump", "write_txt"}
    /\ ExceptReturn
    /\ UNCHANGED <<config, input_dir, json_files, attempts, fs, report>>
    /\ UNCHANGED notBatch

\* main, lines 231-232: the final report
Report ==
    /\ pc = "loop"
    /\ idx > Len(json_files)
    /\ report' = [made |-> TRUE, success |-> success_count, total |-> Len(json_files)]
    /\ pc' = "done"
    /\ UNCHANGED <<config, input_dir, json_files, idx, success_count, returned,
                   attempts, chunks, fs>>
    /\ UNCHANGED notBatch

-----------------------------------------------------------------------------
(* preprocessing.py: process_files, one task per input file, joined by
   asyncio.gather under asyncio.run.  A task is
     "created"    wrapped by gather, its first step not yet run
     "awaiting"   the input file is open and the partition request in flight
     "written"    finished, its result file written
     "empty"      finished, no elements, so no result file
     "failed"     finished by an exception
     "cancelled"  cancelled by asyncio.run when process_files ended *)

Tasks == DOMAIN task

Finished == {"written", "empty", "failed"}

FanInit ==
    /\ \E n \in 0..MaxTasks : /\ task = [i \in 1..n |-> "created"]
                              /\ outfile = [i \in 1..n |-> "none"]
    /\ driver = "gather"

\* partition_file_via_api, lines 12-29: the first step of a task, run in creation
\* order in the first iteration of the event loop: open(filename, "rb") and the
\* request are made; a file that cannot be opened raises out of the task
StartTask(i) ==
    /\ task[i] = "created"
    /\ \A j \in Tasks : j < i => task[j] # "created"
    /\ \E opened \in BOOLEAN : task' = [task EXCEPT ![i] = IF opened THEN "awaiting" ELSE "failed"]
    /\ UNCHANGED <<outfile, driver>>
    /\ UNCHANGED notFan

\* a request can complete only once every task has issued its own
AllStarted == \A j \in Tasks : task[j] # "created"

\* lines 30, 36-43: the API returns elements and the result file is written
\* (open + json.dump); the write runs in the same step as the return
ApiElements(i) ==
    /\ AllStarted
    /\ task[i] = "awaiting"
    /\ \E w \in {"full", "partial", "none"} :
         /\ outfile' = [outfile EXCEPT ![i] = w]
         /\ task' = [task EXCEPT ![i] = IF w = "full" THEN "written" ELSE "failed"]
    /\ UNCHANGED driver
    /\ UNCHANGED notFan

\* lines 31-33 and 38: UnstructuredClientError is caught and [] returned, or the
\* API returns no elements: nothing is written
ApiNoElements(i) ==
    /\ AllStarted
    /\ task[i] = "awaiting"
    /\ task' = [task EXCEPT ![i] = "empty"]
    /\ UNCHANGED <<outfile, driver>>
    /\ UNCHANGED notFan

\* line 29: the await raises an exception that is no UnstructuredClientError
ApiRaises(i) ==
    /\ AllStarted
    /\ task[i] = "awaiting"
    /\ task' = [task EXCEPT ![i] = "failed"]
    /\ UNCHANGED <<outfile, driver>>
    /\ UNCHANGED notFan

\* what asyncio.run does to the tasks still pending when process_files has ended
CancelPending(t) == [i \in DOMAIN t |-> IF t[i] \in Finished THEN t[i] ELSE "cancelled"]

\* line 77: gather has no return_exceptions, so the first task exception is raised
\* in process_files at once; asyncio.run then cancels the tasks still pending
GatherRaises ==
    /\ driver = "gather"
    /\ AllStarted
    /\ \E i \in Tasks : task[i] = "failed"
    /\ driver' = "raised"
    /\ task' = CancelPending(task)
    /\ UNCHANGED outfile
    /\ UNCHANGED notFan

\* line 77: every task finished without an exception, process_files goes on
GatherReturns ==
    /\ driver = "gather"
    /\ \A i \in Tasks : task[i] \in {"written", "empty"}
    /\ driver' = "returned"
    /\ UNCHANGED <<task, outfile>>
    /\ UNCHANGED notFan

FanNext ==
    \/ \E i \in Tasks : StartTask(i)
    \/ \E i \in Tasks : ApiElements(i)
    \/ \E i \in Tasks : ApiNoElements(i)
    \/ \E i \in Tasks : ApiRaises(i)
    \/ GatherRaises
    \/ GatherReturns

-----------------------------------------------------------------------------
(* setupLangchain.py: load_chunked_files, and the filter setup_rag_system
   applies to its result; chunked_output here holds whole .chunks.json files *)

\* the chunks save_chunks is given in this part of the model
ChunkPool ==
    { Chunk(<<"a", " ", "b">>, CompositeElement, Orig(<<Title, NarrativeText>>)),
      Chunk(<<"\"", "\\", "n", "\n">>, Table, Orig(<<Table>>)),
      Chunk(<<"c">>, CompositeElement, NoOrig) }

ChunkLists == UNION { [1..n -> ChunkPool] : n \in 0..MaxChunks }

\* the input files whose chunks are saved in this part of the model
StoreNames == { <<"report", "pdf", "json">>, <<"notes", "pdf", "json">> }

Document(page_content, metadata) == [page_content |-> page_content, metadata |-> metadata]

\* del metadata[k], whatever the type of the value
DelKey(m, k) ==
    [ints |-> Without(m.ints, k), strs |-> Without(m.strs, k), lists |-> Without(m.lists, k)]

\* the source is taken from the name of the chunk file, not from the chunk
ChunkToDocumentStemSource(chunk, json_file) ==
    LET metadata == chunk.metadata
        withSource == [metadata EXCEPT !.strs = With(metadata.strs, "source", Stem(json_file))]
    IN  Document(chunk.text, DelKey(withSource, "languages"))

\* load_chunked_files, lines 15-24: one chunk of json_file becomes a Document
ChunkToDocument(chunk, json_file) ==
    LET metadata == chunk.metadata
        source == IF "original_filename" \in DOMAIN metadata.strs
                  THEN metadata.strs["original_filename"]
                  ELSE Stem(json_file)
        withSource == [metadata EXCEPT !.strs = With(metadata.strs, "source", source)]
    IN  Document(chunk.text, DelKey(withSource, "languages"))

\* the chunks of a file are visited from the last to the first
LoadFileReversed(content, json_file) ==
    LET loaded == JsonLoad(content)
    IN  [i \in 1..Len(loaded) |-> ChunkToDocument(loaded[Len(loaded) + 1 - i], json_file)]

\* load_chunked_files, lines 12-24, for one file
LoadFile(content, json_file) ==
    LET loaded == JsonLoad(content)
    IN  [i \in 1..Len(loaded) |-> ChunkToDocument(loaded[i], json_file)]

\* langchain's filter_complex_metadata, as setup_rag_system calls it: only
\* str, bool, int and float values are kept
FilterComplexMetadata(ds) ==
    [i \in 1..Len(ds) |-> Document(ds[i].page_content, [ds[i].metadata EXCEPT !.lists = EmptyMap])]

StoreInit ==
    /\ store = EmptyMap
    /\ saved = EmptyMap
    /\ processed = {}
    /\ globbed = <<>>
    /\ documents = <<>>
    /\ docs = <<>>
    /\ spc = "saving"

\* save_chunks, lines 112-139, run to its end for one document; the batch calls
\* it at most once for an input file
SaveChunks(name, chunkList, now) ==
    /\ spc = "saving"
    /\ name \notin processed
    /\ processed' = processed \cup {name}
    /\ store' = With(store, JsonFile(OutputFile(name)), JsonDump(JsonOutput(chunkList, name, now)))
    /\ saved' = With(saved, JsonFile(OutputFile(name)),
                     [name |-> name, chunks |-> chunkList, now |-> now])
    /\ UNCHANGED <<globbed, documents, docs, spc>>
    /\ UNCHANGED notStore

\* load_chunked_files, lines 8-26: every *.chunks.json file, in the order glob gives
LoadChunkedFiles ==
    /\ spc = "saving"
    /\ \E order \in Orderings(DOMAIN store) :
         /\ globbed' = order
         /\ documents' = Flatten([i \in 1..Len(order) |-> LoadFile(store[order[i]], order[i])])
    /\ spc' = "loaded"
    /\ UNCHANGED <<store, saved, processed, docs>>
    /\ UNCHANGED notStore

\* setup_rag_system, lines 50-52
FilterMetadata ==
    /\ spc = "loaded"
    /\ docs' = FilterComplexMetadata(documents)
    /\ spc' = "filtered"
    /\ UNCHANGED <<store, saved, processed, globbed, documents>>
    /\ UNCHANGED notStore

StoreNext ==
    \/ \E name \in StoreNames, chunkList \in ChunkLists, now \in Timestamps :
         SaveChunks(name, chunkList, now)
    \/ LoadChunkedFiles
    \/ FilterMetadata

-----------------------------------------------------------------------------
(* query.py (and, line for line, setupRAG.py): ask_question and the loop of main *)

\* search_kwargs={"k": 3}: at most this many source documents per answer
RetrieverK == 3

\* the preview length of ask_question
PreviewLen == 100

UpperCase == <<"A", "B", "C", "D", "E", "F", "G", "H", "I", "J", "K", "L", "M",
               "N", "O", "P", "Q", "R", "S", "T", "U", "V", "W", "X", "Y", "Z">>
LowerCase == <<"a", "b", "c", "d", "e", "f", "g", "h", "i", "j", "k", "l", "m",
               "n", "o", "p", "q", "r", "s", "t", "u", "v", "w", "x", "y", "z">>

\* a comparison that keeps the case
LowerKeepCase(text) == text

\* str.lower
Lower(text) ==
    [i \in 1..Len(text) |->
        IF \E j \in 1..26 : UpperCase[j] = text[i]
        THEN LowerCase[CHOOSE j \in 1..26 : UpperCase[j] = text[i]]
        ELSE text[i]]

RECURSIVE LStrip(_)
LStrip(text) ==
    IF text # <<>> /\ Head(text) \in Whitespace THEN LStrip(Tail(text)) ELSE text

RECURSIVE RStrip(_)
RStrip(text) ==
    IF text # <<>> /\ text[Len(text)] \in Whitespace
    THEN RStrip(SubSeq(text, 1, Len(text) - 1)) ELSE text

\* str.strip
Strip(text) == RStrip(LStrip(text))

\* ['quit', 'exit', 'q']
Sentinels == { <<"q", "u", "i", "t">>, <<"e", "x", "i", "t">>, <<"q">> }

\* the lines input() may return
RawInputs ==
    { <<"q", "u", "i", "t">>,
      <<" ", "Q", "u", "i", "t", " ">>,
      <<"E", "X", "I", "T">>,
      <<"Q">>,
      <<>>,
      <<" ", "\t">>,
      <<"h", "i">>,
      <<" ", "q", " ", "q">> }

\* a text of n characters, no two neighbours alike
TextOfLen(n) == [i \in 1..n |-> DigitChars[(i % 10) + 1]]

NoSource == [present |-> FALSE, value |-> <<>>]

Source(name) == [present |-> TRUE, value |-> name]

\* the documents the retriever may return: (page_content, metadata.get('source'))
RetrievedPool ==
    { [page_content |-> TextOfLen(3), source |-> Source(<<"notes", "pdf", "json">>)],
      [page_content |-> TextOfLen(PreviewLen), source |-> Source(<<"report", "pdf", "json">>)],
      [page_content |-> TextOfLen(PreviewLen + 1), source |-> Source(<<"report", "docx", "json">>)],
      [page_content |-> TextOfLen(PreviewLen + 50), source |-> NoSource] }

\* what qa_chain.invoke may do: raise, or return an answer with its source documents
InvokeOutcomes ==
    { [raises |-> TRUE, result |-> <<>>, source_documents |-> <<>>] }
    \cup { [raises |-> FALSE, result |-> <<"o", "k">>, source_documents |-> ds] :
             ds \in UNION { [1..n -> RetrievedPool] : n \in 0..RetrieverK } }

Ellipsis == <<".", ".", ".">>

\* the preview is cut one character early
PreviewFromLimit(page_content) ==
    IF Len(page_content) >= PreviewLen
    THEN SubSeq(page_content, 1, PreviewLen) \o Ellipsis
    ELSE page_content

\* ask_question, line 119
Preview(page_content) ==
    IF Len(page_content) > PreviewLen
    THEN SubSeq(page_content, 1, PreviewLen) \o Ellipsis
    ELSE page_content

\* ask_question, lines 117-120: the numbered source lines that are printed
SourceLines(source_documents) ==
    [i \in 1..Len(source_documents) |->
        [rank |-> i,
         source |-> IF source_documents[i].source.present
                    THEN source_documents[i].source.value ELSE <<"Unknown">>,
         preview |-> Preview(source_documents[i].page_content)]]

NoCall == [outcome |-> "none", propagated |-> FALSE, is_none |-> TRUE,
           result |-> <<>>, source_documents |-> <<>>, printed |-> <<>>]

\* the exception leaves ask_question
ExceptPropagate ==
    [outcome |-> "error", propagated |-> TRUE, is_none |-> TRUE,
     result |-> <<>>, source_documents |-> <<>>, printed |-> <<>>]

\* ask_question, lines 124-126: the exception is printed and None returned
ExceptNone ==
    [outcome |-> "error", propagated |-> FALSE, is_none |-> TRUE,
     result |-> <<>>, source_documents |-> <<>>, printed |-> <<>>]

\* ask_question, lines 112-126, with what qa_chain.invoke did
AskQuestion(question, invoked) ==
    IF invoked.raises
    THEN ExceptNone
    ELSE [outcome |-> "answer", propagated |-> FALSE, is_none |-> FALSE,
          result |-> invoked.result, source_documents |-> invoked.source_documents,
          printed |-> SourceLines(invoked.source_documents)]

LoopInit ==
    /\ lpc = "prompt"
    /\ inputs = <<>>
    /\ asked = <<>>
    /\ failures = 0
    /\ last = NoCall

\* main, lines 149-153: a sentinel ends the loop
Quit(raw) ==
    /\ lpc = "prompt"
    /\ Len(inputs) < MaxInputs
    /\ Lower(Strip(raw)) \in Sentinels
    /\ inputs' = Append(inputs, raw)
    /\ lpc' = "done"
    /\ UNCHANGED <<asked, failures, last>>
    /\ UNCHANGED notLoop

\* main, lines 155-156: an empty line is skipped
SkipEmpty(raw) ==
    /\ lpc = "prompt"
    /\ Len(inputs) < MaxInputs
    /\ Lower(Strip(raw)) \notin Sentinels
    /\ Strip(raw) = <<>>
    /\ inputs' = Append(inputs, raw)
    /\ UNCHANGED <<lpc, asked, failures, last>>
    /\ UNCHANGED notLoop

\* main, line 158: the question is asked; an exception that leaves ask_question
\* leaves main
Ask(raw, invoked) ==
    /\ lpc = "prompt"
    /\ Len(inputs) < MaxInputs
    /\ Lower(Strip(raw)) \notin Sentinels
    /\ Strip(raw) # <<>>
    /\ inputs' = Append(inputs, raw)
    /\ asked' = Append(asked, Strip(raw))
    /\ failures' = IF invoked.raises THEN failures + 1 ELSE failures
    /\ last' = AskQuestion(Strip(raw), invoked)
    /\ lpc' = IF last'.propagated THEN "crashed" ELSE "prompt"
    /\ UNCHANGED notLoop

LoopNext ==
    \/ \E raw \in RawInputs : Quit(raw)
    \/ \E raw \in RawInputs : SkipEmpty(raw)
    \/ \E raw \in RawInputs, invoked \in InvokeOutcomes : Ask(raw, invoked)

-----------------------------------------------------------------------------
(* The specifications: each part of the program runs on its own *)

BatchIdle ==
    /\ pc = "idle" /\ config = NoConfig /\ input_dir = EmptyMap /\ json_files = <<>>
    /\ idx = 1 /\ success_count = 0 /\ returned = <<>> /\ attempts = EmptyMap
    /\ chunks = <<>> /\ fs = EmptyMap /\ report = NoReport

FanIdle == task = <<>> /\ outfile = <<>> /\ driver = "idle"

StoreIdle ==
    /\ store = EmptyMap /\ saved = EmptyMap /\ processed = {} /\ globbed = <<>>
    /\ documents = <<>>
    /\ docs = <<>> /\ spc = "idle"

LoopIdle == lpc = "idle" /\ inputs = <<>> /\ asked = <<>> /\ failures = 0 /\ last = NoCall

\* chunking.py
Init == BatchInit /\ FanIdle /\ StoreIdle /\ LoopIdle
Next ==
    \/ Construct
    \/ Glob
    \/ LoadJson
    \/ ChunkElements
    \/ OpenJson
    \/ DumpRecord
    \/ OpenTxt
    \/ WriteTxt
    \/ ReturnTrue
    \/ Raise
    \/ Report
Spec == Init /\ [][Next]_vars

\* preprocessing.py
InitFanout == BatchIdle /\ FanInit /\ StoreIdle /\ LoopIdle
SpecFanout == InitFanout /\ [][FanNext]_vars

\* save_chunks, then load_chunked_files and the metadata filter
InitStore == BatchIdle /\ FanIdle /\ StoreInit /\ LoopIdle
SpecStore == InitStore /\ [][StoreNext]_vars

\* the interactive loop
InitLoop == BatchIdle /\ FanIdle /\ StoreIdle /\ LoopInit
SpecLoop == InitLoop /\ [][LoopNext]_vars

-----------------------------------------------------------------------------
(* The chunking batch: claims C1 to C4, under Spec *)

\* the number of process_file calls that returned True
Successes == Cardinality({i \in 1..Len(returned) : returned[i]})

\* the batch has ended
BatchEnded == pc = "done"

\* C1 as stated: for every list of input files, the empty one included, each file
\* is attempted exactly once, the run ends with the final report, and the count
\* reported is the number of files whose processing returned success.
C1_EveryListReported ==
    BatchEnded =>
        /\ report.made
        /\ \A n \in DOMAIN input_dir : attempts[n] = 1
        /\ report.success = Successes
        /\ 0 <= report.success /\ report.success <= Len(json_files)

\* C1 (amended): for every non-empty list of input files and every pattern of
\* per-file failures, no file is attempted twice, the batch is never stopped
\* before its final report, and when it ends each file has been attempted exactly
\* once and the reported count is the number of files whose processing returned
\* success, between 0 and the number of files.
C1_BatchSurvivesFailures ==
    /\ pc # "crashed"
    /\ \A n \in DOMAIN input_dir : attempts[n] <= 1
    /\ ~BatchEnded => ENABLED Next
    /\ (BatchEnded /\ json_files # <<>>) =>
          /\ report.made
          /\ \A n \in DOMAIN input_dir : attempts[n] = 1
          /\ Len(returned) = Len(json_files)
          /\ report.total = Len(json_files)
          /\ report.success = Successes
          /\ 0 <= report.success /\ report.success <= Len(json_files)

\* a batch of three files has ended in which a file failed and a later one succeeded
C1_Witness ==
    /\ BatchEnded /\ report.made /\ Len(json_files) = 3
    /\ \E i, j \in 1..Len(returned) : i < j /\ ~returned[i] /\ returned[j]
    /\ report.success = 2

\* C2: whenever no save_chunks call is in progress (the points between two files
\* and after the batch), every chunk file that exists holds everything that was to
\* be written to it: no partially written file is left behind.
C2_AtomicWrite ==
    pc \in {"loop", "done"} => \A p \in DOMAIN fs : Complete(fs[p])

\* the thresholds and the overlap are acceptable
ValidConfig(c) ==
    /\ c.overlap < c.max_characters
    /\ c.max_characters > 0
    /\ c.new_after_n_chars > 0
    /\ c.combine_text_under_n_chars > 0

\* C3: process_file is never reached with an invalid configuration (overlap >=
\* max_characters, or a size threshold that is zero or negative): constructing
\* such a configuration fails.
C3_InvalidConfigRejected ==
    (\E n \in DOMAIN attempts : attempts[n] > 0) => ValidConfig(config)

\* C4: a file whose partitioning gave zero elements is recorded as processed, not
\* as a failure: the process_file call for it does not return False.
C4_EmptyIsProcessed ==
    \A i \in 1..Len(returned) : input_dir[json_files[i]] = "empty" => returned[i]

-----------------------------------------------------------------------------
(* The partitioning fan-out: claim C5, under SpecFanout *)

\* C5: once process_files has left gather (returned from it or been raised out
\* of it), every task has run to completion: none is pending or was cancelled,
\* whatever happened to the other tasks.
C5_AllTasksComplete ==
    driver \in {"returned", "raised"} => \A i \in Tasks : task[i] \in Finished

-----------------------------------------------------------------------------
(* Storing and loading chunks: claims C6 and C10, under SpecStore *)

\* the chunks that were saved, in the order load_chunked_files visits their files,
\* each with its 1-based position in its document
SavedInOrder ==
    Flatten([f \in 1..Len(globbed) |->
               [j \in 1..Len(saved[globbed[f]].chunks) |->
                  [chunk |-> saved[globbed[f]].chunks[j],
                   index |-> j,
                   name  |-> saved[globbed[f]].name,
                   now   |-> saved[globbed[f]].now]]])

Loaded == spc \in {"loaded", "filtered"}

\* the list of constituent element kinds of a chunk: empty when it has none
KindsOfChunk(chunk) == IF chunk.orig.present THEN chunk.orig.kinds ELSE <<>>

\* the list of constituent element kinds a record or document carries
KindsOfMetadata(m) ==
    IF "original_element_types" \in DOMAIN m.lists THEN m.lists["original_element_types"] ELSE <<>>

\* C6: round trip. Every stored file reads back as one record per chunk saved,
\* and what load_chunked_files returns has, chunk by chunk in document order, the
\* chunk's text, its 1-based index and its list of constituent element kinds.
C6_RoundTrip ==
    /\ \A p \in DOMAIN store :
          LET records == JsonLoad(store[p])
          IN  /\ Len(records) = Len(saved[p].chunks)
              /\ \A i \in 1..Len(records) :
                    /\ records[i].text = saved[p].chunks[i].text
                    /\ records[i].chunk_id = i
                    /\ records[i].metadata.ints["chunk_index"] = i
                    /\ KindsOfMetadata(records[i].metadata) = KindsOfChunk(saved[p].chunks[i])
    /\ Loaded =>
          /\ Len(documents) = Len(SavedInOrder)
          /\ \A k \in 1..Len(documents) :
                /\ documents[k].page_content = SavedInOrder[k].chunk.text
                /\ documents[k].metadata.ints["chunk_index"] = SavedInOrder[k].index
                /\ KindsOfMetadata(documents[k].metadata) = KindsOfChunk(SavedInOrder[k].chunk)

\* two files were loaded, one of them with two chunks, among them the chunk whose
\* text holds a quote, a backslash and a line break
C6_Witness ==
    /\ spc = "loaded"
    /\ Len(globbed) = 2
    /\ \E p \in DOMAIN saved :
          /\ Len(saved[p].chunks) = 2
          /\ \E i \in 1..2 : saved[p].chunks[i].text = <<"\"", "\\", "n", "\n">>
    /\ \E k \in 1..Len(documents) : documents[k].page_content = <<"\"", "\\", "n", "\n">>

\* the metadata save_chunks persisted for the k-th chunk loaded
Persisted(k) ==
    ChunkData(SavedInOrder[k].index, SavedInOrder[k].chunk,
              SavedInOrder[k].name, SavedInOrder[k].now).metadata

\* ds holds one document per persisted chunk, with the chunk's text, its
\* original_filename as source, no list-valued metadata field, and every other
\* persisted field unchanged
AdaptedWithoutLists(ds) ==
    /\ Len(ds) = Len(SavedInOrder)
    /\ \A k \in 1..Len(ds) :
          /\ ds[k].page_content = SavedInOrder[k].chunk.text
          /\ "source" \in DOMAIN ds[k].metadata.strs
          /\ ds[k].metadata.strs["source"] = SavedInOrder[k].name
          /\ DOMAIN ds[k].metadata.lists = {}
          /\ ds[k].metadata.ints = Persisted(k).ints
          /\ Without(ds[k].metadata.strs, "source") = Persisted(k).strs

\* C10 as stated: the documents load_chunked_files returns are one per persisted
\* chunk, with the text verbatim, source = original_filename, the other scalar
\* fields unchanged, and no list-valued metadata field.
C10_LoaderDropsLists == Loaded => AdaptedWithoutLists(documents)

\* C10 (amended): the documents setup_rag_system hands to the vector store
\* (load_chunked_files followed by filter_complex_metadata) are one per persisted
\* chunk, with the text verbatim, source = original_filename, no list-valued
\* metadata field and every int and string field unchanged; load_chunked_files
\* alone keeps the text, the source and every persisted field, the list-valued
\* original_element_types included.
C10_FilteredDocuments ==
    /\ spc = "filtered" => AdaptedWithoutLists(docs)
    /\ Loaded =>
          /\ Len(documents) = Len(SavedInOrder)
          /\ \A k \in 1..Len(documents) :
                /\ documents[k].page_content = SavedInOrder[k].chunk.text
                /\ documents[k].metadata.strs["source"] = SavedInOrder[k].name
                /\ documents[k].metadata.ints = Persisted(k).ints
                /\ documents[k].metadata.lists = Persisted(k).lists
                /\ Without(documents[k].metadata.strs, "source") = Persisted(k).strs

\* documents of two files were filtered, and a loaded one carried a kind list
C10_Witness ==
    /\ spc = "filtered"
    /\ Len(globbed) = 2
    /\ Len(docs) >= 3
    /\ \E k \in 1..Len(documents) : "original_element_types" \in DOMAIN documents[k].metadata.lists

-----------------------------------------------------------------------------
(* The interactive loop: claims C7 to C9, under SpecLoop *)

\* the lines of RawInputs that are "quit", "exit" or "q" once trimmed, whatever the case
QuitLines ==
    { <<"q", "u", "i", "t">>, <<" ", "Q", "u", "i", "t", " ">>, <<"E", "X", "I", "T">>, <<"Q">> }

\* the lines of RawInputs that are empty once trimmed
EmptyLines == { <<>>, <<" ", "\t">> }

\* the question a line of RawInputs that is neither asks, trimmed
TrimmedQuestion(raw) ==
    IF raw = <<" ", "q", " ", "q">> THEN <<"q", " ", "q">> ELSE raw

\* the questions a sequence of lines asks: those before the first quit line that
\* are not empty
RECURSIVE QuestionsOf(_)
QuestionsOf(lines) ==
    IF lines = <<>> \/ Head(lines) \in QuitLines THEN <<>>
    ELSE IF Head(lines) \in EmptyLines THEN QuestionsOf(Tail(lines))
    ELSE <<TrimmedQuestion(Head(lines))>> \o QuestionsOf(Tail(lines))

\* the loop is where the lines read so far put it: ended if and only if the last
\* line read is a quit line, no line read after a quit line, and exactly the
\* questions of the other non-empty lines asked, in order
LoopFollowsInputs ==
    /\ lpc \in {"prompt", "done"}
    /\ lpc = "done" <=> (inputs # <<>> /\ inputs[Len(inputs)] \in QuitLines)
    /\ \A i \in 1..Len(inputs) : inputs[i] \in QuitLines => i = Len(inputs)
    /\ asked = QuestionsOf(inputs)
    /\ (lpc = "prompt" /\ Len(inputs) < MaxInputs) => ENABLED LoopNext

\* C7: a quit line ends the loop with no question asked for it or after it, an
\* empty line asks nothing and the loop prompts again, and every other line asks
\* exactly one question, in input order.
C7_LoopProtocol == LoopFollowsInputs

\* an empty line, then a quit line in capitals: nothing was asked, the loop ended
C7_Witness ==
    /\ lpc = "done"
    /\ Len(inputs) = 2
    /\ inputs[1] \in EmptyLines
    /\ inputs[2] = <<" ", "Q", "u", "i", "t", " ">>
    /\ asked = <<>>

\* C8: once a question has met an exception, ask_question has returned None for it
\* without raising, and the loop goes on as the lines alone dictate: it prompts
\* again and handles the next line as it would have without the failure.
C8_FailureKeepsLoop ==
    /\ last.outcome = "error" => (last.is_none /\ ~last.propagated)
    /\ failures > 0 => LoopFollowsInputs

\* after a failed question, the next question was asked and answered
C8_Witness ==
    /\ failures = 1
    /\ Len(asked) = 2
    /\ last.outcome = "answer"
    /\ lpc = "prompt"

\* C9: a successful answer prints one source line per retrieved document, in rank
\* order; the preview is the whole text when it has at most 100 characters, and
\* its first 100 characters followed by "..." when it has more.
C9_SourcePreviews ==
    last.outcome = "answer" =>
        /\ Len(last.printed) = Len(last.source_documents)
        /\ \A i \in 1..Len(last.printed) :
              LET text == last.source_documents[i].page_content
                  preview == last.printed[i].preview
              IN  /\ last.printed[i].rank = i
                  /\ Len(text) <= 100 => preview = text
                  /\ Len(text) > 100 =>
                        /\ Len(preview) = 103
                        /\ \A j \in 1..100 : preview[j] = text[j]
                        /\ \A j \in 101..103 : preview[j] = "."

\* an answer with three sources: texts of exactly 100, of 101 and of 3 characters
C9_Witness ==
    /\ last.outcome = "answer"
    /\ Len(last.source_documents) = 3
    /\ Len(last.source_documents[1].page_content) = 100
    /\ Len(last.source_documents[2].page_content) = 101
    /\ Len(last.source_documents[3].page_content) = 3
    /\ Len(last.printed) = 3

-----------------------------------------------------------------------------
(* Chunk order through storage and loading: claim C11, under SpecStore *)

\* the number of records in the first f files load_chunked_files visited
RECURSIVE RecordsBefore(_)
RecordsBefore(f) ==
    IF f = 0 THEN 0 ELSE RecordsBefore(f - 1) + Len(store[globbed[f]])

\* the documents that came from the f-th file visited
DocumentsOfFile(f) ==
    SubSeq(documents, RecordsBefore(f - 1) + 1, RecordsBefore(f))

\* C11: chunk order is kept. For a document of n chunks the persisted records
\* carry chunk_id = chunk_index = 1..n, strictly increasing in document order
\* (position i, 0-based, gets i + 1), and the documents load_chunked_files makes
\* of that file are n documents in that same order: the j-th has chunk_index j
\* and the text of the j-th chunk, none skipped, duplicated or reordered.
C11_OrderPreserved ==
    /\ \A p \in DOMAIN store :
          LET records == JsonLoad(store[p])
              n == Len(saved[p].chunks)
          IN  /\ { records[i].chunk_id : i \in 1..Len(records) } = 1..n
              /\ \A i \in 1..Len(records) :
                    records[i].chunk_id = records[i].metadata.ints["chunk_index"]
              /\ \A i, j \in 1..Len(records) :
                    i < j => records[i].chunk_id < records[j].chunk_id
    /\ Loaded =>
          /\ Len(documents) = RecordsBefore(Len(globbed))
          /\ \A f \in 1..Len(globbed) :
                LET seg == DocumentsOfFile(f)
                    given == saved[globbed[f]].chunks
                IN  /\ Len(seg) = Len(given)
                    /\ \A j \in 1..Len(seg) :
                          /\ seg[j].metadata.ints["chunk_index"] = j
                          /\ seg[j].page_content = given[j].text
                    /\ \A i, j \in 1..Len(seg) :
                          i < j => seg[i].metadata.ints["chunk_index"]
                                     < seg[j].metadata.ints["chunk_index"]

\* two files of two chunks each were loaded, the chunks of a file differing
C11_Witness ==
    /\ Loaded
    /\ Len(globbed) = 2
    /\ Len(documents) = 4
    /\ \A f \in 1..2 : Len(DocumentsOfFile(f)) = 2
    /\ documents[1].page_content # documents[2].page_content
    /\ documents[2].metadata.ints["chunk_index"] = 2

-----------------------------------------------------------------------------
(* Output files of distinct input files: claim C12, under Spec *)

\* the file at path holds, whole, the chunks of the input file name
HoldsChunksOf(path, name) ==
    /\ path \in DOMAIN fs
    /\ Complete(fs[path])
    /\ Len(fs[path].written) = Len(ChunkByTitle(input_dir[name])) + (IF path = TxtFile(OutputFile(name)) THEN 1 ELSE 0)

\* the .chunks.json file at path was written for the input file name
JsonWrittenFor(path, name) ==
    /\ HoldsChunksOf(path, name)
    /\ \A i \in 1..Len(fs[path].written) :
          DecodeRecord(fs[path].written[i]).metadata.strs["original_filename"] = name

\* the .chunks.txt file at path was written for the input file name
TxtWrittenFor(path, name) ==
    /\ HoldsChunksOf(path, name)
    /\ fs[path].written[1].header = name

\* C12: two distinct input files of a batch never write to the same output
\* files. Stated of the batches in which every file was processed successfully:
\* once such a batch has ended, the .chunks.json paths of any two distinct input
\* files differ, so do their .chunks.txt paths, and the chunk files of every
\* document still hold that document's chunks, none overwritten by another's.
C12_DistinctOutputs ==
    (BatchEnded /\ \A i \in 1..Len(returned) : returned[i]) =>
        /\ \A a, b \in DOMAIN input_dir :
              a # b => /\ JsonFile(OutputFile(a)) # JsonFile(OutputFile(b))
                       /\ TxtFile(OutputFile(a)) # TxtFile(OutputFile(b))
        /\ \A i \in 1..Len(returned) :
              /\ JsonWrittenFor(JsonFile(OutputFile(json_files[i])), json_files[i])
              /\ TxtWrittenFor(TxtFile(OutputFile(json_files[i])), json_files[i])

====
